---- MODULE Spec2Model ----
(***************************************************************************)
(* Model of ferriswheel's _HTTPClient (src/src/lib.rs): the constructor    *)
(* `new` and the retry loop of `_request`, as driven by `request`.         *)
(*                                                                         *)
(* A call of _request is a future: `request` creates it, the runtime polls *)
(* it, and it runs without interruption from one await to the next.  Its   *)
(* awaits are `send().await` (line 35) and `text().await` (line 38).  The  *)
(* model has one action for each of these steps: the creation of the       *)
(* future, its first poll up to the first send, the arrival of a response  *)
(* (or of the error of send) up to the next await or the end of the call,  *)
(* and the arrival of the text of a 2xx response (or of its error).        *)
(* Several calls on the same client interleave at these points.            *)
(*                                                                         *)
(* Strings that the code parses (the method, the user agent) are sequences *)
(* of byte values, so that the parse is computed.                          *)
(***************************************************************************)
EXTENDS Integers, Sequences, FiniteSets

VARIABLES
    client,       \* "unbuilt" | "built" | "err": self.client, or the Err of new
    MAX_RETRIES,  \* self.MAX_RETRIES (u8); 0 while no _HTTPClient exists
    pc,           \* per call: "idle" | "created" | "await" | "text" | "done"
    args,         \* per call: the arguments url, method, body of _request
    tries,        \* per call: the loop variable `tries`
    sent,         \* per call: the requests handed to the transport, in order
    recv,         \* per call: the answers of the transport, in order; the body
                  \* of a response is Unread until text().await resolves
    result        \* per call: what the future resolved to

vars == <<client, MAX_RETRIES, pc, args, tries, sent, recv, result>>

----------------------------------------------------------------------------
(* Bounds of the model *)

\* largest retry policy explored when the policy is not the constructor's
MaxPolicy == 4

\* the calls made on the one client
Calls == {"c1", "c2"}

----------------------------------------------------------------------------
(* Values *)

\* the value `new` gives MAX_RETRIES
DefaultMaxRetries == 3

U8 == 256

None == [some |-> FALSE, val |-> ""]
Some(s) == [some |-> TRUE, val |-> s]

\* "GET", "POST", "G T", ""
GET == <<71, 69, 84>>
POST == <<80, 79, 83, 84>>
BadToken == <<71, 32, 84>>
EmptyToken == <<>>

\* the arguments a caller passes to request(url, method, body)
RequestSpecs ==
    { [url |-> "/a", method |-> GET,        body |-> None],
      [url |-> "/b", method |-> POST,       body |-> Some("x")],
      [url |-> "/a", method |-> BadToken,   body |-> Some("x")],
      [url |-> "/b", method |-> EmptyToken, body |-> None] }

NoArgs == [url |-> "", method |-> <<>>, body |-> None]

\* "fw/1", "fw\n"
UserAgents == { <<102, 119, 47, 49>>, <<102, 119, 10>> }

\* What the transport can answer to one send: an error of send(), or a
\* response with a status.  The body of a response is not read by send();
\* text() later resolves to its text or to an error.
BodyErr == "<body error>"
Unread == "<unread>"
SendErr == [err |-> TRUE, status |-> 0, body |-> BodyErr]
Resp(s, b) == [err |-> FALSE, status |-> s, body |-> b]
Response(s) == Resp(s, Unread)

\* what send().await can resolve to
Answers ==
    { SendErr, Response(200), Response(204), Response(304), Response(400), Response(500), Response(503) }

\* what response.text().await can resolve to
Bodies == { "a", "b", BodyErr }

\* RequestReturnType and the other ways the future can end
RString(t) == [kind |-> "String", text |-> t, code |-> 0]
RU16(s) == [kind |-> "U16", text |-> "", code |-> s]
RErr == [kind |-> "Err", text |-> "", code |-> 0]
RPanic(what) == [kind |-> "Panic", text |-> what, code |-> 0]
Pending == [kind |-> "Pending", text |-> "", code |-> 0]

----------------------------------------------------------------------------
(* Library functions the code calls, computed on the bytes *)

\* RFC 7230 tchar, the table of http::Method
IsTokenByte(b) ==
    \/ b = 33
    \/ b \in 35..39
    \/ b \in {42, 43, 45, 46}
    \/ b \in 48..57
    \/ b \in 65..90
    \/ b \in 94..122
    \/ b \in {124, 126}

\* reqwest::Method::from_bytes(..): Ok iff non-empty and all token bytes
from_bytes_ok(m) == Len(m) > 0 /\ \A i \in 1..Len(m) : IsTokenByte(m[i])

\* (variant) only DEL rejected, the control range forgotten
user_agent_ok_lenient(ua) == \A i \in 1..Len(ua) : ua[i] # 127

\* HeaderValue validity, which Client::builder().user_agent(..).build() needs
user_agent_ok(ua) == \A i \in 1..Len(ua) : (ua[i] >= 32 /\ ua[i] # 127) \/ ua[i] = 9

\* (variant) the default taken whatever the option holds
unwrap_or_default(b, d) == d

\* body.unwrap_or("")
unwrap_or(b, d) == IF b.some THEN b.val ELSE d

\* (variants) the lower end of a class left out
is_success_above(s) == s > 200 /\ s < 300
is_client_error_above(s) == s > 400 /\ s < 500

\* StatusCode::is_success, is_client_error, is_server_error
is_success(s) == s >= 200 /\ s < 300
is_client_error(s) == s >= 400 /\ s < 500
is_server_error(s) == s >= 500 /\ s < 600

----------------------------------------------------------------------------
(* The retry loop *)

\* (variant) the counter kept in one place shared by all calls
StoreTriesShared(tr, c, t) == [d \in DOMAIN tr |-> t]

\* the loop variable is a local of the call
StoreTries(tr, c, t) == [tr EXCEPT ![c] = t]

\* (variants) the cutoff tied to another index
CutoffLate(t) == t = 2
CutoffEarly(t) == t = 0
CutoffFromOne(t) == t >= 1

\* the index at which a server error is returned instead of retried
Cutoff(t) == t = 1

\* the request of one iteration
BuildRequest(a) == [method |-> a.method, url |-> a.url, body |-> unwrap_or(a.body, "")]

Finish(c, out) ==
    /\ pc' = [pc EXCEPT ![c] = "done"]
    /\ result' = [result EXCEPT ![c] = out]
    /\ UNCHANGED <<tries, sent>>

\* (variant) the range taken inclusive of MAX_RETRIES
LoopHeadInclusive(c, a, t) ==
    IF t > MAX_RETRIES
    THEN Finish(c, RPanic("unreachable"))
    ELSE IF ~from_bytes_ok(a.method)
    THEN Finish(c, RPanic("unwrap"))
    ELSE /\ tries' = StoreTries(tries, c, t)
         /\ sent' = [sent EXCEPT ![c] = Append(@, BuildRequest(a))]
         /\ pc' = [pc EXCEPT ![c] = "await"]
         /\ UNCHANGED result

\* The head of iteration t of the loop, up to send(): the range ends, or the
\* method is converted and the request goes to the transport.
LoopHead(c, a, t) ==
    IF t >= MAX_RETRIES
    THEN Finish(c, RPanic("unreachable"))
    ELSE IF ~from_bytes_ok(a.method)
    THEN Finish(c, RPanic("unwrap"))
    ELSE /\ tries' = StoreTries(tries, c, t)
         /\ sent' = [sent EXCEPT ![c] = Append(@, BuildRequest(a))]
         /\ pc' = [pc EXCEPT ![c] = "await"]
         /\ UNCHANGED result

\* (variant) a failed exchange retried like an unclassified status
PropagateRetry(c, t) == LoopHead(c, args[c], t + 1)

\* the `?` on send().await and text().await: the Err leaves the call at once
Propagate(c, t) == Finish(c, RErr)

\* response.text().await: the future is suspended until the body is in
AwaitText(c) ==
    /\ pc' = [pc EXCEPT ![c] = "text"]
    /\ UNCHANGED <<tries, sent, result>>

\* What iteration t does when text().await resolves to b.
ReturnText(c, b, t) ==
    IF b = BodyErr
    THEN Propagate(c, t)
    ELSE Finish(c, RString(b))

\* (variant) the cutoff test made before the status is classified
ClassifyCutoffFirst(c, ans, t) ==
    IF ans.err
    THEN Propagate(c, t)
    ELSE IF Cutoff(t)
    THEN Finish(c, RU16(ans.status))
    ELSE IF is_success(ans.status)
    THEN AwaitText(c)
    ELSE IF is_client_error(ans.status)
    THEN Finish(c, RU16(ans.status))
    ELSE LoopHead(c, args[c], t + 1)

\* What iteration t does when send().await resolves to ans: on a 2xx status
\* it suspends at text().await, otherwise it returns or goes round the loop.
Classify(c, ans, t) ==
    IF ans.err
    THEN Propagate(c, t)
    ELSE IF is_success(ans.status)
    THEN AwaitText(c)
    ELSE IF is_client_error(ans.status)
    THEN Finish(c, RU16(ans.status))
    ELSE IF is_server_error(ans.status) /\ Cutoff(t)
    THEN Finish(c, RU16(ans.status))
    ELSE LoopHead(c, args[c], t + 1)

\* _request as a function of its arguments, the policy n and the answers the
\* transport gives to its sends, from iteration t on: the result so far and
\* the number of sends made.
RECURSIVE RunAlone(_, _, _, _)
RunAlone(a, answers, t, n) ==
    IF t >= n
    THEN [result |-> RPanic("unreachable"), sends |-> t]
    ELSE IF ~from_bytes_ok(a.method)
    THEN [result |-> RPanic("unwrap"), sends |-> t]
    ELSE IF Len(answers) < t + 1
    THEN [result |-> Pending, sends |-> t + 1]
    ELSE LET ans == answers[t + 1] IN
         IF ans.err
         THEN [result |-> RErr, sends |-> t + 1]
         ELSE IF is_success(ans.status)
         THEN [result |-> IF ans.body = Unread THEN Pending
                          ELSE IF ans.body = BodyErr THEN RErr
                          ELSE RString(ans.body),
               sends |-> t + 1]
         ELSE IF is_client_error(ans.status)
         THEN [result |-> RU16(ans.status), sends |-> t + 1]
         ELSE IF is_server_error(ans.status) /\ t = 1
         THEN [result |-> RU16(ans.status), sends |-> t + 1]
         ELSE RunAlone(a, answers, t + 1, n)

----------------------------------------------------------------------------
(* Actions *)

\* (variant) the retry budget counted down in the field of the client
SelfAfterCallSpent(m) == IF m > 0 THEN m - 1 ELSE 0

\* _request takes &self: a step of a call leaves MAX_RETRIES as it is
SelfAfterCall(m) == m

\* _HTTPClient::new(user_agent)
New(ua) ==
    /\ client = "unbuilt"
    /\ IF user_agent_ok(ua)
       THEN client' = "built" /\ MAX_RETRIES' = DefaultMaxRetries
       ELSE client' = "err" /\ UNCHANGED MAX_RETRIES
    /\ UNCHANGED <<pc, args, tries, sent, recv, result>>

\* request(url, method, body): the future of _request is created and handed
\* to the runtime; nothing of _request has run yet
Request(c, rs) ==
    /\ client = "built"
    /\ pc[c] = "idle"
    /\ args' = [args EXCEPT ![c] = rs]
    /\ pc' = [pc EXCEPT ![c] = "created"]
    /\ MAX_RETRIES' = SelfAfterCall(MAX_RETRIES)
    /\ UNCHANGED <<client, tries, sent, recv, result>>

\* the first poll of the future: _request runs to its first await or panics
Poll(c) ==
    /\ pc[c] = "created"
    /\ LoopHead(c, args[c], 0)
    /\ MAX_RETRIES' = SelfAfterCall(MAX_RETRIES)
    /\ UNCHANGED <<client, args, recv>>

\* send().await resolves to ans and the future runs on
Respond(c, ans) ==
    /\ pc[c] = "await"
    /\ recv' = [recv EXCEPT ![c] = Append(@, ans)]
    /\ Classify(c, ans, tries[c])
    /\ MAX_RETRIES' = SelfAfterCall(MAX_RETRIES)
    /\ UNCHANGED <<client, args>>

\* response.text().await resolves to b and the future runs on
Text(c, b) ==
    /\ pc[c] = "text"
    /\ recv' = [recv EXCEPT ![c][Len(recv[c])].body = b]
    /\ ReturnText(c, b, tries[c])
    /\ MAX_RETRIES' = SelfAfterCall(MAX_RETRIES)
    /\ UNCHANGED <<client, args>>

NoCalls ==
    /\ pc = [c \in Calls |-> "idle"]
    /\ args = [c \in Calls |-> NoArgs]
    /\ tries = [c \in Calls |-> 0]
    /\ sent = [c \in Calls |-> <<>>]
    /\ recv = [c \in Calls |-> <<>>]
    /\ result = [c \in Calls |-> Pending]

\* before construction
Init ==
    /\ client = "unbuilt"
    /\ MAX_RETRIES = 0
    /\ NoCalls

Next ==
    \/ \E ua \in UserAgents : New(ua)
    \/ \E c \in Calls, rs \in RequestSpecs : Request(c, rs)
    \/ \E c \in Calls : Poll(c)
    \/ \E c \in Calls, ans \in Answers : Respond(c, ans)
    \/ \E c \in Calls, b \in Bodies : Text(c, b)

Spec == Init /\ [][Next]_vars

\* a client whose pub field MAX_RETRIES holds any policy up to MaxPolicy
InitPolicy ==
    /\ client = "built"
    /\ MAX_RETRIES \in 0..MaxPolicy
    /\ NoCalls

NextPolicy ==
    \/ \E c \in Calls, rs \in RequestSpecs : Request(c, rs)
    \/ \E c \in Calls : Poll(c)
    \/ \E c \in Calls, ans \in Answers : Respond(c, ans)
    \/ \E c \in Calls, b \in Bodies : Text(c, b)

SpecPolicy == InitPolicy /\ [][NextPolicy]_vars

\* One call on such a client, with a transport that also answers 101
\* (Switching Protocols), a status below the three classes.
AnswersWithInformational == Answers \cup { Response(101) }

NextOneCall ==
    \/ \E rs \in RequestSpecs : Request("c1", rs)
    \/ Poll("c1")
    \/ \E ans \in AnswersWithInformational : Respond("c1", ans)
    \/ \E b \in Bodies : Text("c1", b)

SpecOneCall == InitPolicy /\ [][NextOneCall]_vars

TypeOK ==
    /\ client \in {"unbuilt", "built", "err"}
    /\ MAX_RETRIES \in 0..(U8 - 1)
    /\ pc \in [Calls -> {"idle", "created", "await", "text", "done"}]
    /\ \A c \in Calls : tries[c] \in 0..(U8 - 1)
    /\ \A c \in Calls : Len(sent[c]) <= MAX_RETRIES /\ Len(recv[c]) <= Len(sent[c])

----------------------------------------------------------------------------
(* Vocabulary of the properties, in terms of the spec: status classes by    *)
(* their numeric ranges, the outcome variants by name.                      *)

Done(c) == pc[c] = "done"
Invocations(c) == Len(sent[c])

Answered(c, i) == i \in 1..Len(recv[c]) /\ ~recv[c][i].err
Is2xx(c, i) == Answered(c, i) /\ recv[c][i].status \in 200..299
Is4xx(c, i) == Answered(c, i) /\ recv[c][i].status \in 400..499
Is5xx(c, i) == Answered(c, i) /\ recv[c][i].status \in 500..599

\* a 2xx response whose text has arrived
Is2xxWithText(c, i) == Is2xx(c, i) /\ recv[c][i].body \notin {BodyErr, Unread}

\* the exchange of attempt i failed: no response, or the body asked for
\* (that of a 2xx response) could not be read
ExchangeFailed(c, i) ==
    /\ i \in 1..Len(recv[c])
    /\ recv[c][i].err \/ (Is2xx(c, i) /\ recv[c][i].body = BodyErr)

Body(t) == [kind |-> "String", text |-> t, code |-> 0]
StatusCode(s) == [kind |-> "U16", text |-> "", code |-> s]
TransportError == [kind |-> "Err", text |-> "", code |-> 0]

ValidVerb(m) == m \in {GET, POST}

----------------------------------------------------------------------------
(* C1 *)

AllServerErrors(c) ==
    Len(recv[c]) >= 1 /\ \A i \in 1..Len(recv[c]) : Is5xx(c, i)

\* C1: with max_attempts >= 3 and every answer so far a 5xx, a call never
\* makes a third invocation: after the first answer it has sent the second
\* request and waits, and after the second answer it has returned
\* StatusCode of the second response.
C1_ServerErrorsStopAtSecond ==
    \A c \in Calls :
        (MAX_RETRIES >= 3 /\ AllServerErrors(c)) =>
            /\ Invocations(c) = 2
            /\ Len(recv[c]) <= 2
            /\ Len(recv[c]) = 1 => pc[c] = "await"
            /\ Len(recv[c]) = 2 =>
                   Done(c) /\ result[c] = StatusCode(recv[c][2].status)

\* a call under max_attempts >= 3 that got 500 then 503 and returned 503
C1_Witness ==
    \E c \in Calls :
        /\ MAX_RETRIES >= 3
        /\ Done(c)
        /\ Len(recv[c]) = 2
        /\ recv[c][1].status = 500 /\ recv[c][2].status = 503
        /\ Invocations(c) = 2
        /\ result[c] = StatusCode(503)

----------------------------------------------------------------------------
(* C2 *)

\* C2: for every max_attempts >= 1, a call that has ended has ended in
\* Body, StatusCode or TransportError, and in nothing else.
C2_EndsInOutcomeOrTransportError ==
    \A c \in Calls :
        (MAX_RETRIES >= 1 /\ Done(c)) =>
            result[c].kind \in {"String", "U16", "Err"}

----------------------------------------------------------------------------
(* C3 *)

\* the answer of attempt i (index i - 1) makes no branch of the loop return
NoReturn(c, i) ==
    /\ Answered(c, i)
    /\ ~Is2xx(c, i)
    /\ ~Is4xx(c, i)
    /\ ~(Is5xx(c, i) /\ i - 1 = 1)

\* C3: a call that ran through all max_attempts attempts without any of
\* them returning has returned StatusCode of the last response.
C3_ExhaustionReturnsLastStatus ==
    \A c \in Calls :
        ( /\ MAX_RETRIES >= 1
          /\ Len(recv[c]) = MAX_RETRIES
          /\ \A i \in 1..Len(recv[c]) : NoReturn(c, i) ) =>
            /\ Done(c)
            /\ result[c] = StatusCode(recv[c][Len(recv[c])].status)

----------------------------------------------------------------------------
(* C4 *)

\* C4: a failed exchange, at whatever attempt, is the last thing the call
\* does with the transport: it has returned TransportError, and has made
\* no invocation beyond the failed one.
C4_TransportFailureEndsCall ==
    \A c \in Calls : \A i \in 1..Len(recv[c]) :
        ExchangeFailed(c, i) =>
            /\ i = Len(recv[c])
            /\ Invocations(c) = i
            /\ Done(c)
            /\ result[c] = TransportError

\* one call failed on its first attempt (one invocation), the other on a
\* later attempt
C4_Witness ==
    \E c, d \in Calls :
        /\ recv[c] = <<SendErr>> /\ Invocations(c) = 1
        /\ Done(c) /\ result[c] = TransportError
        /\ Len(recv[d]) >= 2 /\ ExchangeFailed(d, Len(recv[d]))
        /\ Done(d) /\ result[d] = TransportError

----------------------------------------------------------------------------
(* C5 *)

\* C5: a 4xx answer, at whatever attempt, ends the call with StatusCode of
\* exactly that status and no further invocation; so a 4xx first answer
\* means one invocation, whatever max_attempts is.
C5_ClientErrorReturnsAtOnce ==
    \A c \in Calls : \A i \in 1..Len(recv[c]) :
        Is4xx(c, i) =>
            /\ i = Len(recv[c])
            /\ Invocations(c) = i
            /\ Done(c)
            /\ result[c] = StatusCode(recv[c][i].status)

\* a 400 first answer, one invocation; and a 400 at a later attempt of the
\* other call
C5_Witness ==
    \E c, d \in Calls :
        /\ recv[c] = <<Response(400)>> /\ Invocations(c) = 1
        /\ result[c] = StatusCode(400)
        /\ Len(recv[d]) >= 2 /\ Is4xx(d, Len(recv[d]))
        /\ result[d] = StatusCode(400)

----------------------------------------------------------------------------
(* C6 *)

\* C6: after a 2xx first answer the call makes no further invocation, and
\* once the text of that response has arrived the call has ended with Body
\* of that text, after exactly one invocation, for every request and policy.
C6_SuccessFirstAttempt ==
    \A c \in Calls :
        /\ Is2xx(c, 1) => (Len(recv[c]) = 1 /\ Invocations(c) = 1)
        /\ Is2xxWithText(c, 1) =>
               /\ Done(c)
               /\ result[c] = Body(recv[c][1].body)

\* both requests got a 2xx first answer, with different texts
C6_Witness ==
    \E c, d \in Calls :
        /\ args[c] # args[d]
        /\ recv[c] = <<Resp(200, "a")>> /\ result[c] = Body("a")
        /\ recv[d] = <<Resp(200, "b")>> /\ result[d] = Body("b")
        /\ Invocations(c) = 1 /\ Invocations(d) = 1

----------------------------------------------------------------------------
(* C7 *)

\* C7: after a 5xx answer to attempt 0 the call retries (max_attempts >= 2),
\* and a 2xx answer to attempt 1 whose text arrives ends it with Body of the
\* second response's text, after exactly two invocations.
C7_RetryThenSuccess ==
    \A c \in Calls :
        /\ (MAX_RETRIES >= 2 /\ Is5xx(c, 1)) => Invocations(c) >= 2
        /\ (Is5xx(c, 1) /\ Is2xx(c, 2)) =>
               (Len(recv[c]) = 2 /\ Invocations(c) = 2)
        /\ (Is5xx(c, 1) /\ Is2xxWithText(c, 2)) =>
               /\ Done(c)
               /\ result[c] = Body(recv[c][2].body)

\* the sequence [500, 200] under max_attempts = 3
C7_Witness ==
    \E c \in Calls :
        /\ MAX_RETRIES = 3
        /\ recv[c] = <<Response(500), Resp(200, "b")>>
        /\ Invocations(c) = 2
        /\ Done(c) /\ result[c] = Body("b")

----------------------------------------------------------------------------
(* C8 *)

\* C8: a StatusCode outcome never carries a 2xx status, and a call that
\* received a 2xx response did not end in StatusCode.
C8_NoSuccessStatusCode ==
    \A c \in Calls :
        /\ result[c].kind = "U16" => result[c].code \notin 200..299
        /\ (Done(c) /\ \E i \in 1..Len(recv[c]) : Is2xx(c, i)) =>
               result[c].kind # "U16"

\* a 2xx answer at the cutoff attempt gave Body, while the other call ended
\* in a StatusCode
C8_Witness ==
    \E c, d \in Calls :
        /\ Len(recv[c]) = 2 /\ Is2xxWithText(c, 2)
        /\ Done(c) /\ result[c].kind = "String"
        /\ Done(d) /\ result[d].kind = "U16"

----------------------------------------------------------------------------
(* C9 *)

\* C9: a call whose method is no valid verb token makes no invocation, and
\* when it has ended it has ended in TransportError.
C9_InvalidMethodFailsFast ==
    \A c \in Calls :
        (MAX_RETRIES >= 1 /\ pc[c] # "idle" /\ ~ValidVerb(args[c].method)) =>
            /\ Invocations(c) = 0
            /\ Done(c) => result[c] = TransportError

----------------------------------------------------------------------------
(* C10 *)

\* C10: in every interleaving, each call that has started to run has the
\* result and the number of invocations of the call run alone on the
\* answers it received.
C10_CallsIndependent ==
    \A c \in Calls :
        pc[c] \notin {"idle", "created"} =>
            LET alone == RunAlone(args[c], recv[c], 0, MAX_RETRIES) IN
            /\ result[c] = alone.result
            /\ Invocations(c) = alone.sends
            /\ Done(c) <=> alone.result # Pending

\* one call is suspended at text().await of its second response while the
\* other, at another attempt, has run to its end
C10_Witness ==
    \E c, d \in Calls :
        /\ c # d
        /\ pc[c] = "text" /\ Len(recv[c]) = 2 /\ Is5xx(c, 1) /\ Is2xx(c, 2)
        /\ Done(d) /\ Len(recv[d]) = 3 /\ result[d].kind = "Err"

----------------------------------------------------------------------------
(* C11 *)

\* C11: whenever a requester exists its max_attempts is 3: construction sets
\* it to 3 and no step of any call, whatever its outcome, changes it.
C11_PolicyFixedAtThree ==
    client = "built" => MAX_RETRIES = 3

\* after construction and two finished calls with different kinds of
\* outcome, one of which used every attempt, the policy is 3
C11_Witness ==
    \E c, d \in Calls :
        /\ client = "built" /\ MAX_RETRIES = 3
        /\ Done(c) /\ Done(d)
        /\ result[c].kind # result[d].kind
        /\ Invocations(c) = 3

----------------------------------------------------------------------------
(* C12 *)

IsPrefix(r, q) == Len(r) <= Len(q) /\ \A i \in 1..Len(r) : r[i] = q[i]

\* both calls were answered from one response sequence: what one received
\* is the beginning of what the other received
SameResponseSequence(c, d) == IsPrefix(recv[c], recv[d]) \/ IsPrefix(recv[d], recv[c])

\* C12: two finished calls with identical request specs, answered from the
\* same response sequence, have the same outcome (variant, status, body) and
\* made the same number of invocations.
C12_IdenticalCallsIdenticalOutcomes ==
    \A c, d \in Calls :
        (Done(c) /\ Done(d) /\ args[c] = args[d] /\ SameResponseSequence(c, d)) =>
            /\ result[c] = result[d]
            /\ Invocations(c) = Invocations(d)

\* two calls with the same request, both answered 500 then 503, both ended
\* in StatusCode(503) after two invocations
C12_Witness ==
    \E c, d \in Calls :
        /\ c # d
        /\ Done(c) /\ Done(d)
        /\ args[c] = args[d]
        /\ recv[c] = <<Response(500), Response(503)>>
        /\ recv[d] = recv[c]
        /\ result[c] = StatusCode(503) /\ result[d] = StatusCode(503)
        /\ Invocations(c) = 2 /\ Invocations(d) = 2

----------------------------------------------------------------------------
(* C13 *)

\* an identity string holding a control character other than tab
InvalidIdentity(ua) ==
    \E i \in 1..Len(ua) : (ua[i] < 32 /\ ua[i] # 9) \/ ua[i] = 127

NoRequester ==
    /\ MAX_RETRIES = 0
    /\ \A c \in Calls : pc[c] = "idle" /\ sent[c] = <<>> /\ result[c] = Pending

\* C13: a construction given an invalid identity string ends in
\* TransportInitError; and once construction has failed there is no
\* requester, no call is ever started and no invocation is ever made.
C13_InvalidIdentityNeverUsable ==
    /\ [](client = "err" => NoRequester)
    /\ [][ /\ \A ua \in UserAgents :
                (InvalidIdentity(ua) /\ New(ua)) => client' = "err"
           /\ client = "err" => (client' = "err" /\ sent' = sent /\ pc' = pc) ]_vars

\* construction has failed and nothing was sent
C13_Witness ==
    /\ client = "err"
    /\ NoRequester

----------------------------------------------------------------------------
(* C14 *)

\* C14: a 5xx answer at attempt index 0 or at an index >= 2 never makes the
\* call return: the call went on to another attempt, or waits for the
\* answer to the next one, or the loop ran out (which is no return).  So a
\* StatusCode outcome with a 5xx status is that of the second response,
\* after exactly two invocations, whatever max_attempts is.
C14_CutoffAtIndexOneOnly ==
    \A c \in Calls :
        /\ \A i \in 1..Len(recv[c]) :
               (Is5xx(c, i) /\ i - 1 # 1) =>
                   \/ i < Len(recv[c])
                   \/ pc[c] = "await" /\ Invocations(c) = i + 1
                   \/ i = MAX_RETRIES /\ result[c].kind = "Panic"
        /\ (result[c].kind = "U16" /\ result[c].code \in 500..599) =>
               /\ Invocations(c) = 2
               /\ Len(recv[c]) = 2
               /\ recv[c][2].status = result[c].code

\* under max_attempts = 4 one call got 5xx at indices 0 and 2 and waits for
\* its fourth answer, the other returned a 5xx StatusCode after two
\* invocations
C14_Witness ==
    \E c, d \in Calls :
        /\ MAX_RETRIES = 4
        /\ recv[c] = <<Response(500), Response(304), Response(503)>>
        /\ pc[c] = "await" /\ Invocations(c) = 4
        /\ Done(d) /\ result[d] = StatusCode(500) /\ Invocations(d) = 2

----------------------------------------------------------------------------
(* C15 *)

\* every response received so far has a 2xx, 4xx or 5xx status
AllClassified(c) ==
    \A i \in 1..Len(recv[c]) :
        Answered(c, i) => (Is2xx(c, i) \/ Is4xx(c, i) \/ Is5xx(c, i))

\* C15: a call never makes more than max_attempts invocations; and with
\* max_attempts >= 2 and only 2xx, 4xx or 5xx responses it makes at most two.
C15_InvocationsBounded ==
    \A c \in Calls :
        /\ Invocations(c) <= MAX_RETRIES
        /\ (MAX_RETRIES >= 2 /\ AllClassified(c)) => Invocations(c) <= 2

\* under max_attempts = 4 one call used all four invocations and ran out,
\* the other got 2xx, 4xx or 5xx only and ended after its second
C15_Witness ==
    \E c, d \in Calls :
        /\ MAX_RETRIES = 4
        /\ Invocations(c) = 4 /\ Len(recv[c]) = 4 /\ Done(c)
        /\ Len(recv[d]) = 2 /\ AllClassified(d) /\ Is5xx(d, 1)
        /\ Done(d) /\ Invocations(d) = 2

----------------------------------------------------------------------------
(* C16 *)

\* a response whose status is in none of the classes 2xx, 4xx, 5xx
IsOtherClass(c, i) ==
    Answered(c, i) /\ ~Is2xx(c, i) /\ ~Is4xx(c, i) /\ ~Is5xx(c, i)

\* C16: a response outside 2xx, 4xx and 5xx is never returned: at every
\* attempt index, index 1 included, the call went on to another attempt, or
\* waits for the answer to the next one, or the loop ran out.  So every
\* StatusCode outcome carries a 4xx or 5xx status.
C16_OtherStatusNeverReturned ==
    \A c \in Calls :
        /\ \A i \in 1..Len(recv[c]) :
               IsOtherClass(c, i) =>
                   \/ i < Len(recv[c])
                   \/ pc[c] = "await" /\ Invocations(c) = i + 1
                   \/ i = MAX_RETRIES /\ result[c].kind = "Panic"
        /\ result[c].kind = "U16" => result[c].code \in 400..599

\* a call got 101 at index 0 and 304 at index 1 and waits for its third
\* answer
C16_Witness ==
    \E c \in Calls :
        /\ recv[c] = <<Response(101), Response(304)>>
        /\ IsOtherClass(c, 1) /\ IsOtherClass(c, 2)
        /\ pc[c] = "await" /\ Invocations(c) = 3

----------------------------------------------------------------------------
(* C17 *)

\* the request the spec of call c describes: its url, its method, and its
\* body or the empty string
SpecRequest(c) ==
    [ method |-> args[c].method,
      url |-> args[c].url,
      body |-> IF args[c].body.some THEN args[c].body.val ELSE "" ]

\* C17: every attempt of a call sends the request of its spec: same url,
\* same method, same body, the empty string when the spec has no body.
C17_EveryAttemptSameRequest ==
    \A c \in Calls : \A i \in 1..Len(sent[c]) : sent[c][i] = SpecRequest(c)

\* a call with a body has sent three attempts and a call without a body two
C17_Witness ==
    \E c, d \in Calls :
        /\ args[c].body = Some("x") /\ Invocations(c) = 3
        /\ sent[c][3].body = "x"
        /\ ~args[d].body.some /\ Invocations(d) = 2
        /\ sent[d][2].body = ""
====
